---- MODULE Spec2Model ----
(***************************************************************************)
(* AsyncQueue<T> of @herrevilkitten/async-queue.                           *)
(*                                                                         *)
(* JavaScript values are written as the text of their literal ("0", "1",   *)
(* "''", "false", "undefined", "10", ...), so that the truthiness tests    *)
(* of the code (`if (data)`, `if (timeout)`, `if (initial)`) are computed  *)
(* by ToBoolean and not assumed.  A next() request is named by the number  *)
(* of its call (1, 2, ...): the resolve and the reject function the        *)
(* Promise executor receives are both identified with that number, and     *)
(* promises[r] is the state of the promise the r-th call returned.         *)
(***************************************************************************)
EXTENDS Integers, Sequences, FiniteSets

VARIABLES
    list,          \* AsyncQueue.list: the buffered values, head first
    resolveList,   \* AsyncQueue.resolveList: resolve functions of waiting next() calls
    rejectList,    \* AsyncQueue.rejectList: reject functions pushed by next()
    promises,      \* promises[r]: state of the promise returned by the r-th next()
    timers,        \* the setTimeout callbacks that have not run yet: request and delay
    added,         \* history: every value given to the constructor or to add(), in order
    discarded,     \* history: the values clear() removed from the buffer, in order
    fromBuffer,    \* history: the requests that next() resolved directly from the buffer
    listIdx,       \* history: for each buffered value, its position in `added`
    got,           \* history: got[r] is the position in `added` of the value given to
                   \* the r-th next(), 0 when it was given none
    clearMark,     \* history: the number of values added before the last clear()
    shape,         \* history: the form of the sequence of calls made so far
    iter,          \* the `for await` loop over the queue: its state and the request it awaits
    results,       \* the values the loop body has received, in order
    settled,       \* the promises given to add() that have resolved so far
    lastOp         \* history: the last operation that ran, its argument and its result

vars == <<list, resolveList, rejectList, promises, timers,
          added, discarded, fromBuffer, listIdx, got, clearMark, shape, lastOp,
          iter, results, settled>>

queue == <<list, resolveList, rejectList, promises, timers>>

\* The consumers and producers around the queue that only some specifications run.
aside == <<iter, results, settled>>

----------------------------------------------------------------------------
(* Bounds of the exploration: the seed's length, the values ever added (seed *)
(* included) and the next() calls.                                           *)

MaxSeed == 2
MaxAdd == 2
MaxNext == 3

(* The values producers add: a falsy one and two truthy ones. *)
Values == {"0", "1", "2"}

(* The timeout arguments of next(): omitted, 0, and two real delays        *)
(* (timers of different delays fire in either order).                      *)
Timeouts == {"undefined", "0", "10", "20"}

----------------------------------------------------------------------------
(* JavaScript helpers. *)

\* ToBoolean of a value written as its literal: the falsy literals.
ToBoolean(v) == v \notin {"undefined", "null", "false", "0", "''", "NaN"}

\* Array.prototype.indexOf: the 0-based index of the first x, or -1.
IndexOf(s, x) ==
    IF \E i \in 1..Len(s) : s[i] = x
    THEN (CHOOSE i \in 1..Len(s) : s[i] = x /\ \A j \in 1..(i - 1) : s[j] # x) - 1
    ELSE -1

\* Array.prototype.splice(index, count) for index >= 0: the array that remains.
Splice(s, index, count) ==
    LET start == IF index < Len(s) THEN index ELSE Len(s)
    IN  SubSeq(s, 1, start) \o SubSeq(s, start + count + 1, Len(s))

\* The promises a producer can add in the place of a value, and the value each
\* resolves with; as an object a promise is truthy whatever it resolves with.
Handles == {"Promise<0>", "Promise<1>"}

Awaited(h) == CASE h = "Promise<0>" -> "0" [] h = "Promise<1>" -> "1"

\* A resolve function that would store what it is given, promise or not.
Resolve_noAdopt(ps, r, v) ==
    IF ps[r].state = "pending"
    THEN [ps EXCEPT ![r] = [state |-> "fulfilled", value |-> v]]
    ELSE ps

\* The resolve function of promise r called with v: a settled promise ignores
\* it.  Called with a promise, it locks r onto that promise: r stays unsettled
\* and ignores every later call of its resolve and reject functions, and takes
\* the outcome of the promise once that one has resolved (see adopt).
Resolve(ps, r, v) ==
    IF ps[r].state = "pending"
    THEN [ps EXCEPT ![r] = IF v \in Handles
                           THEN [state |-> "locked", value |-> v]
                           ELSE [state |-> "fulfilled", value |-> v]]
    ELSE ps

\* The reject function of promise r called with new Error(msg).
Reject(ps, r, msg) ==
    IF ps[r].state = "pending"
    THEN [ps EXCEPT ![r] = [state |-> "rejected", value |-> msg]]
    ELSE ps

\* rejectList.forEach((reject) => reject(new Error(msg)))
RECURSIVE RejectEach(_, _, _)
RejectEach(ps, rl, msg) ==
    IF rl = <<>> THEN ps
    ELSE RejectEach(Reject(ps, Head(rl), msg), Tail(rl), msg)

Pending == [state |-> "pending", value |-> "undefined"]

SeqsUpTo(S, n) == UNION {[1..k -> S] : k \in 0..n}

\* The constructor's argument: omitted, or an array of values.
InitialArgs ==
    {[given |-> FALSE, items |-> <<>>]}
        \cup {[given |-> TRUE, items |-> s] : s \in SeqsUpTo(Values, MaxSeed)}

\* The delay a timeout literal stands for, in milliseconds.
Millis(timeout) == CASE timeout = "10" -> 10 [] timeout = "20" -> 20

\* The requests whose timer is armed.
Armed == {t.req : t \in timers}

\* The timer of request r can be the next to fire.  The runtime keeps one
\* list of timers per delay, in the order they were armed, shared by every
\* setTimeout of the process, and runs in one go the timers of a list that
\* have expired.  Two timers of the same delay therefore fire in the order
\* they were armed; two timers of different delays fire in either order,
\* whatever their deadlines: the time between the two calls, the time the
\* caller keeps the event loop busy, and the timers of the surrounding
\* program that head the lists decide.
MayFire(r) ==
    \E t \in timers :
        /\ t.req = r
        /\ \A u \in timers : u.req < r => Millis(u.ms) # Millis(t.ms)

Op(kind, arg, req, ret) == [kind |-> kind, arg |-> arg, req |-> req, ret |-> ret]

----------------------------------------------------------------------------
(* The queue's read-only members. *)

size == Len(list)

isEmpty == Len(list) = 0

\* peek(): this.list[0]
peekValue == IF Len(list) > 0 THEN list[1] ELSE "undefined"

----------------------------------------------------------------------------
(* Operations. *)

\* new AsyncQueue(initial)
constructor(initial) ==
    /\ list = (IF initial.given THEN initial.items ELSE <<>>)
    /\ listIdx = [i \in 1..Len(list) |-> i]
    /\ resolveList = <<>>
    /\ rejectList = <<>>
    /\ promises = <<>>
    /\ got = <<>>
    /\ timers = {}
    /\ added = list
    /\ discarded = <<>>
    /\ clearMark = 0
    /\ fromBuffer = {}
    /\ shape = (IF list = <<>> THEN "empty" ELSE "seeded")
    /\ lastOp = Op("constructor", "", 0, "")
    /\ iter = [state |-> "idle", req |-> 0]
    /\ results = <<>>
    /\ settled = {}

\* add(data) with pop() in the place of shift(): the newest waiter is served.
add_pop(data) ==
    /\ Len(added) < MaxAdd
    /\ IF Len(resolveList) > 0
       THEN /\ resolveList' = SubSeq(resolveList, 1, Len(resolveList) - 1)
            /\ promises' = Resolve(promises, resolveList[Len(resolveList)], data)
            /\ got' = (IF promises[resolveList[Len(resolveList)]].state = "pending"
                       THEN [got EXCEPT ![resolveList[Len(resolveList)]] = Len(added) + 1]
                       ELSE got)
            /\ list' = list
            /\ listIdx' = listIdx
            /\ lastOp' = Op("add", data, resolveList[Len(resolveList)], "")
       ELSE /\ list' = Append(list, data)
            /\ listIdx' = Append(listIdx, Len(added) + 1)
            /\ UNCHANGED <<resolveList, promises, got>>
            /\ lastOp' = Op("add", data, 0, "")
    /\ added' = Append(added, data)
    /\ shape' = CASE shape \in {"empty", "adds"} -> "adds"
                  [] shape \in {"nexts", "nexts_adds"} -> "nexts_adds"
                  [] OTHER -> "mixed"
    /\ UNCHANGED <<rejectList, timers, discarded, fromBuffer, clearMark>>

\* The body of add(data).
addBody(data) ==
    /\ IF Len(resolveList) > 0
       THEN /\ resolveList' = Tail(resolveList)
            /\ promises' = Resolve(promises, Head(resolveList), data)
            /\ got' = (IF promises[Head(resolveList)].state = "pending"
                       THEN [got EXCEPT ![Head(resolveList)] = Len(added) + 1]
                       ELSE got)
            /\ list' = list
            /\ listIdx' = listIdx
            /\ lastOp' = Op("add", data, Head(resolveList), "")
       ELSE /\ list' = Append(list, data)
            /\ listIdx' = Append(listIdx, Len(added) + 1)
            /\ UNCHANGED <<resolveList, promises, got>>
            /\ lastOp' = Op("add", data, 0, "")
    /\ added' = Append(added, data)
    /\ shape' = CASE shape \in {"empty", "adds"} -> "adds"
                  [] shape \in {"nexts", "nexts_adds"} -> "nexts_adds"
                  [] OTHER -> "mixed"
    /\ UNCHANGED <<rejectList, timers, discarded, fromBuffer, clearMark>>

\* add(data), while the exploration has values left to add.
add(data) ==
    /\ Len(added) < MaxAdd
    /\ addBody(data)

\* next(timeout)
next(timeout) ==
    /\ Len(promises) < MaxNext
    /\ LET r == Len(promises) + 1
           data == IF Len(list) > 0 THEN Head(list) ELSE "undefined"
       IN  /\ list' = (IF Len(list) > 0 THEN Tail(list) ELSE list)
           /\ listIdx' = (IF Len(list) > 0 THEN Tail(listIdx) ELSE listIdx)
           /\ IF ToBoolean(data)
              THEN /\ promises' = Append(promises, Resolve(<<Pending>>, 1, data)[1])
                   /\ got' = Append(got, Head(listIdx))
                   /\ fromBuffer' = fromBuffer \cup {r}
                   /\ UNCHANGED <<resolveList, rejectList, timers>>
              ELSE /\ promises' = Append(promises, Pending)
                   /\ got' = Append(got, 0)
                   /\ resolveList' = Append(resolveList, r)
                   /\ rejectList' = Append(rejectList, r)
                   /\ timers' = (IF ToBoolean(timeout)
                                 THEN timers \cup {[req |-> r, ms |-> timeout]}
                                 ELSE timers)
                   /\ UNCHANGED fromBuffer
           /\ lastOp' = Op("next", timeout, r, "")
    /\ shape' = CASE shape \in {"empty", "nexts"} -> "nexts"
                  [] shape \in {"adds", "adds_nexts"} -> "adds_nexts"
                  [] shape \in {"seeded", "seeded_nexts"} -> "seeded_nexts"
                  [] OTHER -> "mixed"
    /\ UNCHANGED <<added, discarded, clearMark>>

\* The timeout callback without `if (index > -1)`: splice(-1, 1) removes the last entry.
timeoutCallback_noGuard(r) ==
    /\ MayFire(r)
    /\ timers' = {t \in timers : t.req # r}
    /\ LET index == IndexOf(resolveList, r)
       IN  /\ resolveList' = (IF index > -1 THEN Splice(resolveList, index, 1)
                              ELSE SubSeq(resolveList, 1, Len(resolveList) - 1))
           /\ rejectList' = (IF index > -1 THEN Splice(rejectList, index, 1)
                             ELSE SubSeq(rejectList, 1, Len(rejectList) - 1))
           /\ promises' = Reject(promises, r, "Timeout")
    /\ lastOp' = Op("timer", "", r, "")
    /\ shape' = "mixed"
    /\ UNCHANGED <<list, listIdx, got, added, discarded, fromBuffer, clearMark>>

\* The callback next(timeout) gave to setTimeout, run for request r.
timeoutCallback(r) ==
    /\ MayFire(r)
    /\ timers' = {t \in timers : t.req # r}
    /\ LET index == IndexOf(resolveList, r)
       IN  IF index > -1
           THEN /\ resolveList' = Splice(resolveList, index, 1)
                /\ rejectList' = Splice(rejectList, index, 1)
                /\ promises' = Reject(promises, r, "Timeout")
           ELSE UNCHANGED <<resolveList, rejectList, promises>>
    /\ lastOp' = Op("timer", "", r, "")
    /\ shape' = "mixed"
    /\ UNCHANGED <<list, listIdx, got, added, discarded, fromBuffer, clearMark>>

\* peek()
peek ==
    /\ lastOp' = Op("peek", "", 0, peekValue)
    /\ UNCHANGED <<list, listIdx, resolveList, rejectList, promises, got, timers,
                   added, discarded, clearMark, fromBuffer, shape>>

\* clear() without `this.list.length = 0`.
clear_keepList ==
    /\ list' = list
    /\ listIdx' = listIdx
    /\ promises' = RejectEach(promises, rejectList, "Queue cleared")
    /\ resolveList' = <<>>
    /\ rejectList' = <<>>
    /\ discarded' = discarded
    /\ clearMark' = Len(added)
    /\ lastOp' = Op("clear", "", 0, "")
    /\ shape' = "mixed"
    /\ UNCHANGED <<timers, added, fromBuffer, got>>

\* clear()
clear ==
    /\ list' = <<>>
    /\ listIdx' = <<>>
    /\ promises' = RejectEach(promises, rejectList, "Queue cleared")
    /\ resolveList' = <<>>
    /\ rejectList' = <<>>
    /\ discarded' = discarded \o list
    /\ clearMark' = Len(added)
    /\ lastOp' = Op("clear", "", 0, "")
    /\ shape' = "mixed"
    /\ UNCHANGED <<timers, added, fromBuffer, got>>

Init == \E initial \in InitialArgs : constructor(initial)

Next ==
    \/ \E data \in Values : add(data) /\ UNCHANGED aside
    \/ \E timeout \in Timeouts : next(timeout) /\ UNCHANGED aside
    \/ \E r \in Armed : timeoutCallback(r) /\ UNCHANGED aside
    \/ peek /\ UNCHANGED aside
    \/ clear /\ UNCHANGED aside

\* The operations that change the queue: peek(), like size and isEmpty, only
\* reads it (`return this.list[0]`).
NextUpdate ==
    \/ \E data \in Values : add(data) /\ UNCHANGED aside
    \/ \E timeout \in Timeouts : next(timeout) /\ UNCHANGED aside
    \/ \E r \in Armed : timeoutCallback(r) /\ UNCHANGED aside
    \/ clear /\ UNCHANGED aside

SpecUpdate == Init /\ [][NextUpdate]_vars

\* The same operations with one more value to add.
NextWide ==
    \/ \E data \in Values : Len(added) < MaxAdd + 1 /\ addBody(data) /\ UNCHANGED aside
    \/ \E timeout \in Timeouts : next(timeout) /\ UNCHANGED aside
    \/ \E r \in Armed : timeoutCallback(r) /\ UNCHANGED aside
    \/ peek /\ UNCHANGED aside
    \/ clear /\ UNCHANGED aside

SpecWide == Init /\ [][NextWide]_vars

----------------------------------------------------------------------------
(* Iteration: `for await (const item of queue) results.push(item)`.  Each  *)
(* step of the loop is a next() without timeout; a "Queue cleared" failure *)
(* ends the loop normally and any other failure is thrown to the caller.   *)

\* The loop starts: the iterator makes its first next() call.
iterStart ==
    /\ iter.state = "idle"
    /\ next("undefined")
    /\ iter' = [state |-> "waiting", req |-> Len(promises) + 1]
    /\ results' = results
    /\ settled' = settled

\* The loop resumes when the promise it awaits has settled: with a value the
\* body runs and the iterator calls next() again; with a failure the loop ends.
iterResume ==
    /\ iter.state = "waiting"
    /\ promises[iter.req].state \in {"fulfilled", "rejected"}
    /\ settled' = settled
    /\ IF promises[iter.req].state = "fulfilled"
       THEN /\ results' = Append(results, promises[iter.req].value)
            /\ next("undefined")
            /\ iter' = [state |-> "waiting", req |-> Len(promises) + 1]
       ELSE /\ iter' = [state |-> (IF promises[iter.req].value = "Queue cleared"
                                   THEN "done" ELSE "failed"),
                        req |-> iter.req]
            /\ lastOp' = Op("iterator", "", iter.req, "")
            /\ UNCHANGED <<list, resolveList, rejectList, promises, timers, added,
                           discarded, fromBuffer, listIdx, got, clearMark, shape,
                           results>>

NextIter ==
    \/ \E data \in Values : add(data) /\ UNCHANGED aside
    \/ \E timeout \in Timeouts : next(timeout) /\ UNCHANGED aside
    \/ \E r \in Armed : timeoutCallback(r) /\ UNCHANGED aside
    \/ peek /\ UNCHANGED aside
    \/ clear /\ UNCHANGED aside
    \/ iterStart
    \/ iterResume

SpecIter == Init /\ [][NextIter]_vars

----------------------------------------------------------------------------
(* Promises as values: `queue.add(promise)`.  The promise resolves on its    *)
(* own, before or after it is added; a next() promise locked onto it is      *)
(* fulfilled with its value by the job the runtime queues for that.          *)

\* The values a producer adds when it may add promises.
PromiseValues == Handles \cup {"2"}

\* The promise h resolves with Awaited(h).
settle(h) ==
    /\ h \notin settled
    /\ settled' = settled \cup {h}
    /\ lastOp' = Op("settle", h, 0, "")
    /\ UNCHANGED <<list, resolveList, rejectList, promises, timers, added,
                   discarded, fromBuffer, listIdx, got, clearMark, shape,
                   iter, results>>

\* Promise r, locked onto a promise that has resolved, takes its value.
adopt(r) ==
    /\ promises[r].state = "locked"
    /\ promises[r].value \in settled
    /\ promises' = [promises EXCEPT ![r] = [state |-> "fulfilled",
                                            value |-> Awaited(promises[r].value)]]
    /\ lastOp' = Op("adopt", "", r, "")
    /\ UNCHANGED <<list, resolveList, rejectList, timers, added, discarded,
                   fromBuffer, listIdx, got, clearMark, shape, iter, results,
                   settled>>

NextPromise ==
    \/ \E data \in PromiseValues : add(data) /\ UNCHANGED aside
    \/ next("undefined") /\ UNCHANGED aside
    \/ clear /\ UNCHANGED aside
    \/ \E h \in Handles : settle(h)
    \/ \E r \in 1..Len(promises) : adopt(r)

SpecPromise == Init /\ [][NextPromise]_vars

Spec == Init /\ [][Next]_vars

----------------------------------------------------------------------------
(* Vocabulary of the properties. *)

Requests == 1..Len(promises)

Fulfilled(v) == [state |-> "fulfilled", value |-> v]

Rejected(msg) == [state |-> "rejected", value |-> msg]

\* The number of occurrences of v in the sequence s.
Count(s, v) == Cardinality({i \in 1..Len(s) : s[i] = v})

\* The number of next() calls that received v.
Delivered(v) == Cardinality({r \in Requests : promises[r] = Fulfilled(v)})

\* The requests of a waiter list, as a set.
Range(s) == {s[i] : i \in 1..Len(s)}

\* s without its occurrences of x, order kept.
Without(s, x) == SelectSeq(s, LAMBDA y : y # x)

----------------------------------------------------------------------------
(* C1: when values A1..An are added to an empty queue before any next(),   *)
(* the n following next() calls resolve with A1..An in that order and the  *)
(* buffer is empty afterwards, whatever the values (falsy ones included).  *)
C1_AddsThenNexts ==
    shape \in {"adds", "adds_nexts"} =>
        /\ \A r \in Requests : r <= Len(added) => promises[r] = Fulfilled(added[r])
        /\ Len(promises) >= Len(added) => list = <<>>

(* C2: when k next() calls are made on an empty queue before any add(),    *)
(* the following add() calls V1..Vk resolve the 1st call with V1, ..., the *)
(* k-th with Vk; the calls not yet served keep waiting in order and        *)
(* nothing is buffered.                                                    *)
C2_NextsThenAdds ==
    shape \in {"nexts", "nexts_adds"} =>
        /\ \A r \in Requests :
              IF r <= Len(added)
              THEN promises[r] = Fulfilled(added[r])
              ELSE promises[r] = Pending
        /\ resolveList = [i \in 1..(Len(promises) - Len(added)) |-> Len(added) + i]
        /\ Len(added) <= Len(promises) => list = <<>>

\* Two next() calls, then two adds of different values, the first one falsy.
C2_Witness ==
    /\ shape = "nexts_adds"
    /\ Len(promises) >= 2
    /\ Len(added) = 2
    /\ added[1] = "0"
    /\ added[2] = "1"
    /\ promises[1] = Fulfilled("0")
    /\ promises[2] = Fulfilled("1")

(* C3: every added value is accounted for exactly once: delivered to one   *)
(* next() call, still in the buffer, or discarded by a clear().            *)
C3_ExactlyOnce ==
    \A v \in Values :
        Count(added, v) = Delivered(v) + Count(list, v) + Count(discarded, v)

(* C4 (I1): between operations the buffer and the list of pending waiters  *)
(* are never both non-empty.                                               *)
C4_BufferOrWaiters == list = <<>> \/ resolveList = <<>>

(* C5: clear() rejects with "Queue cleared" every request that was pending *)
(* when it was called, and leaves no waiter pending.                       *)
C5_ClearRejectsPending ==
    [][lastOp'.kind = "clear" =>
          /\ \A r \in Requests :
                promises[r] = Pending => promises'[r] = Rejected("Queue cleared")
          /\ resolveList' = <<>>]_vars

\* The requests still pending other than r.
OtherPending(r) == {q \in Requests \ {r} : promises[q] = Pending}

(* C6: when the timer of a pending request fires, that request fails with  *)
(* "Timeout" and nothing else changes: the buffer and every other promise  *)
(* are as before, and every other pending request keeps its entries in the *)
(* waiter lists, in the same order, so that later add() calls resolve them *)
(* in registration order.                                                  *)
C6_TimeoutIsolation ==
    [][(lastOp'.kind = "timer" /\ promises[lastOp'.req] = Pending) =>
          /\ promises'[lastOp'.req] = Rejected("Timeout")
          /\ \A q \in Requests \ {lastOp'.req} : promises'[q] = promises[q]
          /\ list' = list
          /\ SelectSeq(resolveList', LAMBDA q : q \in OtherPending(lastOp'.req))
                 = SelectSeq(resolveList, LAMBDA q : q \in OtherPending(lastOp'.req))
          /\ SelectSeq(rejectList', LAMBDA q : q \in OtherPending(lastOp'.req))
                 = SelectSeq(rejectList, LAMBDA q : q \in OtherPending(lastOp'.req))]_vars

(* C7: next() on a non-empty buffer removes exactly the head, resolves     *)
(* with it and registers no waiter, whatever the head value is.            *)
C7_NextTakesHead ==
    [][(lastOp'.kind = "next" /\ Len(list) > 0) =>
          /\ list' = Tail(list)
          /\ promises'[lastOp'.req] = Fulfilled(Head(list))
          /\ resolveList' = resolveList
          /\ rejectList' = rejectList]_vars

(* C8: size equals the number of values added (seed included) minus the    *)
(* number delivered from the buffer by next(), the values a clear()        *)
(* discarded being counted apart.                                          *)
C8_SizeAccounting ==
    size = Len(added) - Cardinality(fromBuffer) - Len(discarded)

\* The oldest request still pending.
OldestPending == CHOOSE r \in Requests :
                     promises[r] = Pending /\ \A q \in 1..(r - 1) : promises[q] # Pending

(* C9: add(value) with a request pending fulfils the oldest pending        *)
(* request with that value and removes it from the waiters, that is from   *)
(* both waiter lists; the buffer, every other promise and the entries of   *)
(* the other requests, in their order, are unchanged.                      *)
C9_AddFulfilsOldest ==
    [][(lastOp'.kind = "add" /\ \E r \in Requests : promises[r] = Pending) =>
          /\ promises'[OldestPending] = Fulfilled(lastOp'.arg)
          /\ \A q \in Requests \ {OldestPending} : promises'[q] = promises[q]
          /\ resolveList' = Without(resolveList, OldestPending)
          /\ rejectList' = Without(rejectList, OldestPending)
          /\ list' = list]_vars

(* C10: peek() returns the head of the buffer (undefined when it is empty) *)
(* and changes neither the buffer nor the waiters, and a next() that       *)
(* follows a peek() of a non-empty buffer receives the value peek() gave.  *)
C10_PeekThenNext ==
    [][/\ lastOp'.kind = "peek" =>
             /\ lastOp'.ret = (IF list = <<>> THEN "undefined" ELSE Head(list))
             /\ UNCHANGED queue
       /\ (lastOp.kind = "peek" /\ list # <<>> /\ lastOp'.kind = "next") =>
             promises'[lastOp'.req] = Fulfilled(lastOp.ret)]_vars

(* C11: after clear() the queue is the newly constructed empty queue: size *)
(* is 0, the buffer and both waiter lists are empty and no request is      *)
(* pending, so that every following add/next/peek/clear acts as on a fresh *)
(* queue; a request that has left the waiters never comes back to them,    *)
(* and a timer armed before the clear changes nothing but itself when it   *)
(* fires later.                                                            *)
C11_ClearIsFresh ==
    /\ [](lastOp.kind = "clear" =>
             /\ size = 0
             /\ isEmpty
             /\ peekValue = "undefined"
             /\ <<list, resolveList, rejectList>> = <<(<<>>), (<<>>), (<<>>)>>
             /\ \A r \in Requests : promises[r] # Pending)
    /\ [][/\ \A i \in 1..Len(resolveList') :
                 resolveList'[i] <= Len(promises) =>
                     \E j \in 1..Len(resolveList) : resolveList[j] = resolveList'[i]
          /\ \A i \in 1..Len(rejectList') :
                 rejectList'[i] <= Len(promises) =>
                     \E j \in 1..Len(rejectList) : rejectList[j] = rejectList'[i]
          /\ (lastOp'.kind = "timer" /\ IndexOf(resolveList, lastOp'.req) = -1) =>
                 UNCHANGED <<list, resolveList, rejectList, promises>>]_vars

\* The requests that receive a value in the step.
Served == {r \in 1..Len(got') : got'[r] # 0 /\ (r > Len(got) \/ got[r] = 0)}

(* C12: clear() discards every buffered value: what is buffered was added  *)
(* after the last clear(), and every value a next() call receives was      *)
(* added after the last clear(), whether it comes from the buffer or       *)
(* straight from add().                                                    *)
C12_ClearDiscards ==
    /\ [](/\ Len(listIdx) = Len(list)
          /\ \A i \in 1..Len(list) :
                listIdx[i] > clearMark /\ added[listIdx[i]] = list[i])
    /\ [][lastOp'.kind = "clear" => list' = <<>> /\ discarded' = discarded \o list]_vars
    /\ [][\A r \in Served : got'[r] > clearMark']_vars

\* A value was buffered and discarded by clear(); a value added after the
\* clear() was then buffered and taken by next().
C12_Witness ==
    /\ discarded # <<>>
    /\ clearMark > 0
    /\ \E r \in fromBuffer :
          got[r] > clearMark /\ promises[r] = Fulfilled(added[got[r]])

(* C13 (I3): a consumer never receives a value added later than a value    *)
(* received by a consumer that registered after it: among the next() calls *)
(* that received a value, the values' positions in the order of addition   *)
(* grow with the order of the calls.                                       *)
C13_FifoPairing ==
    \A r1, r2 \in Requests :
        (r1 < r2 /\ got[r1] # 0 /\ got[r2] # 0) => got[r1] < got[r2]

\* The r-th next() has ended: with a value or with a failure.
Settled(r) == promises[r].state \in {"fulfilled", "rejected"}

(* C14: a next() request ends at most once, with a value, with "Queue      *)
(* cleared" or with "Timeout": once it has ended its outcome never         *)
(* changes, and the timer of a request that has already ended changes      *)
(* neither the buffer, nor the waiters, nor any promise when it fires.     *)
C14_OneOutcome ==
    /\ [](\A r \in Requests :
             \/ promises[r] = Pending
             \/ \E v \in Values : promises[r] = Fulfilled(v)
             \/ promises[r] \in {Rejected("Queue cleared"), Rejected("Timeout")})
    /\ [][\A r \in Requests : Settled(r) => promises'[r] = promises[r]]_vars
    /\ [][(lastOp'.kind = "timer" /\ Settled(lastOp'.req)) =>
             UNCHANGED <<list, resolveList, rejectList, promises>>]_vars

\* The timer of a request that add() had already fulfilled has fired, while
\* another request is waiting.
C14_Witness ==
    /\ lastOp.kind = "timer"
    /\ promises[lastOp.req].state = "fulfilled"
    /\ got[lastOp.req] # 0
    /\ lastOp.req \notin fromBuffer
    /\ \E q \in Range(resolveList) : promises[q] = Pending

(* C15: a next() call with a timeout ends at the latest when its timer     *)
(* fires: once the timer has fired the request has ended (with a value,    *)
(* "Queue cleared" or "Timeout") and is no longer among the waiters.       *)
C15_EndsWhenTimerFires ==
    lastOp.kind = "timer" =>
        /\ Settled(lastOp.req)
        /\ lastOp.req \notin Range(resolveList)

(* C16: the loop ends normally when clear() is called while it is waiting: *)
(* right after a clear() the request the loop awaits has ended, and a loop *)
(* that has ended has ended without an error; and when the loop is the     *)
(* only consumer and every value (truthy ones, as in [1, 2, 3]) was added  *)
(* before the clear() and consumed before it, the loop has received all    *)
(* the values added, in the order of addition.                             *)
C16_IterationEnds ==
    /\ (lastOp.kind = "clear" /\ iter.state = "waiting") =>
           promises[iter.req].state \in {"fulfilled", "rejected"}
    /\ iter.state # "failed"
    /\ (/\ iter.state = "done"
        /\ Len(promises) = Len(results) + 1
        /\ discarded = <<>>
        /\ clearMark = Len(added)
        /\ \A i \in 1..Len(added) : ToBoolean(added[i])) => results = added

(* C17: a queue constructed with the seed S is the queue add() builds from *)
(* S: the buffer is S and size its length, and the next() calls that       *)
(* follow (with no add() between) receive the elements of S in order.      *)
C17_SeedIsAdds ==
    /\ shape = "seeded" => (list = added /\ size = Len(added))
    /\ shape \in {"seeded", "seeded_nexts"} =>
           \A r \in Requests : r <= Len(added) => promises[r] = Fulfilled(added[r])

(* C18 (I2): a waiter that has been fulfilled or aborted is no longer      *)
(* tracked by the queue, so that no later add(), clear() or timer calls    *)
(* its callbacks again: the waiter lists hold only requests that are       *)
(* still pending, and clear() calls the reject function of pending         *)
(* requests only.                                                          *)
C18_SettledNotTracked ==
    /\ [](\A r \in Range(resolveList) \cup Range(rejectList) : ~Settled(r))
    /\ [][lastOp'.kind = "clear" => \A r \in Range(rejectList) : ~Settled(r)]_vars

\* The requests waiting without a timer: a request that asked for a timeout
\* leaves resolveList when its timer fires, so that a request found in
\* resolveList with no timer armed is one that asked for none.
Untimed == Range(resolveList) \ Armed

(* C19: a next() call without a timeout (omitted or 0) that finds the      *)
(* buffer empty arms no timer, and its waiter never ends with "Timeout":   *)
(* after any step it is still pending and waiting, behind no waiter that   *)
(* was not ahead of it before, or an add() has fulfilled it as the oldest  *)
(* waiter, or a clear() has rejected it with "Queue cleared".              *)
C19_UntimedWaiterPersists ==
    [][/\ (lastOp'.kind = "next" /\ ~ToBoolean(lastOp'.arg)) => timers' = timers
       /\ \A r \in Untimed :
            \/ /\ promises'[r] = Pending
               /\ r \in Range(resolveList') \ {t.req : t \in timers'}
               /\ \A o \in Range(resolveList') :
                      IndexOf(resolveList', o) < IndexOf(resolveList', r)
                          => /\ o \in Range(resolveList)
                             /\ IndexOf(resolveList, o) < IndexOf(resolveList, r)
            \/ /\ lastOp'.kind = "add"
               /\ r = Head(resolveList)
               /\ promises'[r] = Fulfilled(lastOp'.arg)
            \/ /\ lastOp'.kind = "clear"
               /\ promises'[r] = Rejected("Queue cleared")]_vars

\* Promise r is locked onto the added promise h.
Locked(h) == [state |-> "locked", value |-> h]

(* C20: a promise given to add() reaches the consumer as the value it      *)
(* resolves with, never as the promise itself: no next() promise is ever   *)
(* fulfilled with a promise, and the next() call that is given an added    *)
(* promise, from the buffer or as a waiter, is unsettled until that        *)
(* promise has resolved and is then fulfilled with its value.              *)
C20_ResolvedValueDelivered ==
    \A r \in Requests :
        /\ promises[r].state = "fulfilled" => promises[r].value \notin Handles
        /\ (got[r] # 0 /\ added[got[r]] \in Handles) =>
               /\ promises[r] \in {Locked(added[got[r]]),
                                   Fulfilled(Awaited(added[got[r]]))}
               /\ promises[r].state = "fulfilled" => added[got[r]] \in settled

\* Two requests have received the value of an added promise, one that took
\* the promise from the buffer and one that was waiting when it was added.
C20_Witness ==
    \E r1, r2 \in Requests :
        /\ r1 \in fromBuffer
        /\ r2 \notin fromBuffer
        /\ \A r \in {r1, r2} :
               /\ got[r] # 0
               /\ added[got[r]] \in Handles
               /\ promises[r] = Fulfilled(Awaited(added[got[r]]))

(* C21: the two waiter lists stay aligned: resolveList and rejectList have *)
(* the same length, their i-th entries belong to the same next() request,  *)
(* that request is still pending, and every pending request has exactly    *)
(* one entry in each list.                                                 *)
C21_ListsAligned ==
    /\ Len(resolveList) = Len(rejectList)
    /\ \A i \in 1..Len(resolveList) :
           /\ i <= Len(rejectList) => rejectList[i] = resolveList[i]
           /\ promises[resolveList[i]] = Pending
    /\ \A i \in 1..Len(rejectList) : promises[rejectList[i]] = Pending
    /\ \A r \in Requests :
           promises[r] = Pending =>
               /\ Count(resolveList, r) = 1
               /\ Count(rejectList, r) = 1

====
